---- MODULE Spec2Model ----
(***************************************************************************)
(* Model of the wizard session engine of ReOpsIL/projector:                *)
(*   src/src/wizard/context.rs   Context (history, cursor, navigation)     *)
(*   src/src/wizard/session.rs   Session, SessionManager (state machine)   *)
(*   src/src/wizard/question.rs  Question and its constructors             *)
(*   src/src/wizard/llm.rs       LlmClient::parse_question_response        *)
(*   src/src/wizard/template.rs  Template::apply_to_context                *)
(* The generation service is an external collaborator: every call into it  *)
(* is a nondeterministic choice over the outcomes the code distinguishes.  *)
(***************************************************************************)
EXTENDS Integers, Sequences, FiniteSets, TLC

\* ---------------------------------------------------------------- bounds
\* Largest question budget a session is created with (with_max_questions).
MaxBudget == 2
\* Cap on len(history): answer_question itself has no limit (see AnswerQuestion).
MaxHistory == 2
\* Cap on current_index: a release build lets go_forward raise it without limit
\* while history is empty.
MaxIndex == 2
\* Last clock second the parser specification reaches.
MaxClock == 1
\* Longest document written line by line.
MaxLines == 3

\* ---------------------------------------------------------------- Option<T>
None == <<>>
Some(v) == <<v>>
IsSome(o) == o # None
Unwrap(o) == o[1]

\* ---------------------------------------------------------------- question.rs
multiple_choice(id, text, options) ==
    [id |-> id, text |-> text, question_type |-> "MultipleChoice",
     options |-> Some(options), scale |-> None, help_text |-> None]

\* Mutant of yes_no: the options are left out.
yes_no_unfilled(id, text) ==
    [id |-> id, text |-> text, question_type |-> "YesNo",
     options |-> None, scale |-> None, help_text |-> None]

yes_no(id, text) ==
    [id |-> id, text |-> text, question_type |-> "YesNo",
     options |-> Some(<<"Yes", "No">>), scale |-> None, help_text |-> None]

rating_scale(id, text, min, max) ==
    [id |-> id, text |-> text, question_type |-> "RatingScale",
     options |-> None, scale |-> Some(<<min, max>>), help_text |-> None]

free_text(id, text) ==
    [id |-> id, text |-> text, question_type |-> "FreeText",
     options |-> None, scale |-> None, help_text |-> None]

with_help_text(q, help_text) == [q EXCEPT !.help_text = Some(help_text)]

\* Questions the collaborator + parser can hand back (LlmClient::generate_question
\* returning Ok): each is built by one of the constructors above.
QuestionPool ==
    { free_text("q_1", "What is the goal?"),
      yes_no("q_2", "Ship it?") }

\* Responses a caller can give; answer_question accepts any string.
Responses == {"", "x"}

\* ---------------------------------------------------------------- output.rs
\* A line of Markdown is a sequence of atoms: a "#", a " ", a word, or a piece of
\* a confidence marker; the line's text is the atoms side by side. A document is
\* the sequence of its lines, as str::lines() returns them.
StarMarker == <<"star">>
CheckMarker == <<"check_mark">>
LargeDiamondMarker == <<"large_orange_diamond">>
SmallDiamondMarker == <<"small_orange_diamond">>
\* The warning emoji is two code points: the warning sign and variation selector 16.
WarningMarker == <<"warning_sign", "vs16">>
\* The text "(Confidence: n/5)".
LiteralMarker(n) == <<"(Confidence:", " ", ToString(n) \o "/5)">>

\* str::starts_with
starts_with(line, prefix) ==
    Len(line) >= Len(prefix) /\ SubSeq(line, 1, Len(prefix)) = prefix

\* str::contains
contains(text, pattern) ==
    \E i \in 1..(Len(text) - Len(pattern) + 1) :
        SubSeq(text, i, i + Len(pattern) - 1) = pattern

\* str::replace(pattern, "") on a line: the occurrences found from left to right,
\* not overlapping, are removed.
RECURSIVE replace_str(_, _)
replace_str(text, pattern) ==
    IF Len(text) < Len(pattern) THEN text
    ELSE IF SubSeq(text, 1, Len(pattern)) = pattern
    THEN replace_str(SubSeq(text, Len(pattern) + 1, Len(text)), pattern)
    ELSE <<Head(text)>> \o replace_str(Tail(text), pattern)

\* str::trim on a line
RECURSIVE trim_str(_)
trim_str(text) ==
    IF text # <<>> /\ Head(text) = " " THEN trim_str(Tail(text))
    ELSE IF text # <<>> /\ text[Len(text)] = " "
    THEN trim_str(SubSeq(text, 1, Len(text) - 1))
    ELSE text

\* The if/else chain of parse_markdown_definition that reads the confidence.
confidence_of(title_line) ==
    IF contains(title_line, StarMarker) THEN "VeryHigh"
    ELSE IF contains(title_line, CheckMarker) THEN "High"
    ELSE IF contains(title_line, LargeDiamondMarker) THEN "Medium"
    ELSE IF contains(title_line, SmallDiamondMarker) THEN "Low"
    ELSE IF contains(title_line, WarningMarker) THEN "VeryLow"
    ELSE IF contains(title_line, LiteralMarker(5)) THEN "VeryHigh"
    ELSE IF contains(title_line, LiteralMarker(4)) THEN "High"
    ELSE IF contains(title_line, LiteralMarker(3)) THEN "Medium"
    ELSE IF contains(title_line, LiteralMarker(2)) THEN "Low"
    ELSE IF contains(title_line, LiteralMarker(1)) THEN "VeryLow"
    ELSE "Medium"

\* The chain of replace calls that cleans the title, and its trim.
clean_title(title_line) ==
    LET r1 == replace_str(title_line, StarMarker)
        r2 == replace_str(r1, CheckMarker)
        r3 == replace_str(r2, LargeDiamondMarker)
        r4 == replace_str(r3, SmallDiamondMarker)
        r5 == replace_str(r4, WarningMarker)
        r6 == replace_str(r5, LiteralMarker(5))
        r7 == replace_str(r6, LiteralMarker(4))
        r8 == replace_str(r7, LiteralMarker(3))
        r9 == replace_str(r8, LiteralMarker(2))
        r10 == replace_str(r9, LiteralMarker(1))
    IN trim_str(r10)

H1Prefix == <<"#", " ">>
H2Prefix == <<"#", "#", " ">>
FallbackName == <<"LLM Project Definition">>

\* line[n..]
SliceFrom(line, n) == SubSeq(line, n + 1, Len(line))

\* The project name: the first line starting with "# ", trimmed, or the fallback.
RECURSIVE project_name(_)
project_name(lines) ==
    IF lines = <<>> THEN FallbackName
    ELSE IF starts_with(Head(lines), H1Prefix) THEN trim_str(SliceFrom(Head(lines), 2))
    ELSE project_name(Tail(lines))

\* ProjectDefinition::add_section on the section list.
add_section(sections, title, content, confidence) ==
    Append(sections, [title |-> title, content |-> content, confidence |-> confidence])

\* The locals of parse_markdown_definition before its loop.
LoopStart ==
    [current_section_title |-> <<>>, current_section_content |-> <<>>,
     current_confidence |-> "Medium", sections |-> <<>>]

\* Mutant of LoopBody: the content of a flushed section is not cleared.
LoopBody_keeps_content(acc, line) ==
    IF starts_with(line, H2Prefix)
    THEN LET flush == acc.current_section_title # <<>> /\ acc.current_section_content # <<>>
             title_line == trim_str(SliceFrom(line, 3))
         IN [current_section_title |-> clean_title(title_line),
             current_section_content |-> acc.current_section_content,
             current_confidence |-> confidence_of(title_line),
             sections |-> IF flush
                          THEN add_section(acc.sections, acc.current_section_title,
                                           acc.current_section_content,
                                           acc.current_confidence)
                          ELSE acc.sections]
    ELSE IF acc.current_section_title # <<>>
    THEN [acc EXCEPT !.current_section_content = @ \o line \o <<"\n">>]
    ELSE acc

\* One turn of the loop `for line in lines`.
LoopBody(acc, line) ==
    IF starts_with(line, H2Prefix)
    THEN LET flush == acc.current_section_title # <<>> /\ acc.current_section_content # <<>>
             title_line == trim_str(SliceFrom(line, 3))
         IN [current_section_title |-> clean_title(title_line),
             current_section_content |-> IF flush THEN <<>>
                                         ELSE acc.current_section_content,
             current_confidence |-> confidence_of(title_line),
             sections |-> IF flush
                          THEN add_section(acc.sections, acc.current_section_title,
                                           acc.current_section_content,
                                           acc.current_confidence)
                          ELSE acc.sections]
    ELSE IF acc.current_section_title # <<>>
    THEN [acc EXCEPT !.current_section_content = @ \o line \o <<"\n">>]
    ELSE acc

RECURSIVE Loop(_, _)
Loop(acc, lines) ==
    IF lines = <<>> THEN acc ELSE Loop(LoopBody(acc, Head(lines)), Tail(lines))

\* Mutant of parse_markdown_definition: the section still being accumulated at
\* the end of the text is not added.
parse_markdown_definition_drops_last(lines) ==
    [name |-> project_name(lines), sections |-> Loop(LoopStart, lines).sections]

\* OutputGenerator::parse_markdown_definition on the lines of the markdown; it
\* always returns Ok.
parse_markdown_definition(lines) ==
    LET acc == Loop(LoopStart, lines)
    IN [name |-> project_name(lines),
        sections |-> IF acc.current_section_title # <<>>
                        /\ acc.current_section_content # <<>>
                     THEN add_section(acc.sections, acc.current_section_title,
                                      acc.current_section_content,
                                      acc.current_confidence)
                     ELSE acc.sections]

\* The document "# Foo\n\n## Bar <star>\nHello\n\n## Baz\nWorld\n".
ExampleDocument ==
    << <<"#", " ", "Foo">>,
       <<>>,
       <<"#", "#", " ", "Bar", " ", "star">>,
       <<"Hello">>,
       <<>>,
       <<"#", "#", " ", "Baz">>,
       <<"World">> >>

\* Lines a document of the collaborator is made of.
DocumentLines ==
    { <<"#", " ", "Foo">>,
      <<>>,
      <<"Hello">>,
      <<"#", "#", "#", " ", "Sub">>,
      H2Prefix \o <<"Bar", " ">> \o StarMarker,
      H2Prefix \o <<"Baz">>,
      H2Prefix \o <<"Qux", " ">> \o LiteralMarker(2) \o <<" ">> \o CheckMarker,
      H2Prefix \o <<"Low", " ">> \o LiteralMarker(1),
      H2Prefix \o StarMarker,
      H2Prefix \o <<"Risk", " ">> \o WarningMarker \o <<" ">> \o SmallDiamondMarker,
      H2Prefix \o <<"Nested", " ", "(Confidence:", " ">> \o LiteralMarker(4) \o <<"5/5)">> }

\* Texts the collaborator can return for a document request.
MarkdownResponses == {ExampleDocument, << <<"Hello">> >>}

\* ---------------------------------------------------------------- state
VARIABLES
    state,            \* Session.state : SessionState
    max_questions,    \* Session.max_questions
    history,          \* Session.context.history : Vec<Answer>
    current_index,    \* Session.context.current_index : usize
    current_question, \* Session.current_question : Option<Question>
    output,           \* Session.output : Option<String>
    overflow_checks,  \* build profile: TRUE = usize arithmetic panics on overflow
    panicked,         \* the process has aborted in a panic
    pending_origin,   \* which assignment last wrote current_question
    lastOp,           \* the SessionManager method called last
    lastResult,       \* what that call returned
    lastCalls,        \* how many times that call invoked the collaborator
    lastAnswer,       \* the Option<&Answer> Context::go_back / go_forward returned in it
    starting_hints,   \* Session.context.starting_hints : Option<String>
    domain,           \* Session.context.domain : Option<String>
    persona,          \* Session.context.persona : Persona
    metadata,         \* Session.context.metadata : HashMap<String, String>
    llm_response,     \* the text handed to parse_question_response
    parsed,           \* what parse_question_response made of it
    clock,            \* the wall clock, in seconds
    files,            \* the seconds for which a response_<time>.json file exists
    markdown,         \* the lines of the text handed to parse_markdown_definition
    assembled,        \* the ProjectDefinition parse_markdown_definition returned
    cli,              \* the arguments of the `new` command, if it built the session
    collaborator_calls \* the collaborator calls the question loop has counted

\* The Context fields no SessionManager method writes.
contextSetup == <<starting_hints, domain, persona, metadata>>

\* The state of LlmClient::parse_question_response.
parserVars == <<llm_response, parsed, clock, files>>

\* The state of OutputGenerator::parse_markdown_definition.
assemblerVars == <<markdown, assembled>>

\* What the caller of the session keeps.
callerVars == <<cli, collaborator_calls>>

vars == <<state, max_questions, history, current_index, current_question, output,
          overflow_checks, panicked, pending_origin, lastOp, lastResult, lastCalls,
          lastAnswer, starting_hints, domain, persona, metadata,
          llm_response, parsed, clock, files, markdown, assembled, cli,
          collaborator_calls>>

SessionState == {"Initial", "Questioning", "Generating", "Completed", "Error"}

\* Answer::new; the timestamp field is never read by the engine and is left out.
Answer(question, response) == [question |-> question, response |-> response]

\* Vec::get(i) on the 0-based history.
HistoryGet(h, i) == IF i < Len(h) THEN Some(h[i + 1]) ELSE None

\* HashMap::insert.
MapInsert(m, k, v) == [x \in (DOMAIN m) \cup {k} |-> IF x = k THEN v ELSE m[x]]

\* Context::default / Context::new.
Context_new ==
    [starting_hints |-> None, domain |-> None, history |-> <<>>, current_index |-> 0,
     persona |-> "Default", metadata |-> <<>>]

\* Context::with_persona.
with_persona(ctx, p) == [ctx EXCEPT !.persona = p]

\* The "Legal Assistant" preset of TemplateRepository::add_default_templates, with
\* Domain::Legal already rendered by Display.
LegalAssistant ==
    [name |-> "Legal Assistant", domain |-> "Legal",
     starting_hints |-> "I want to build an LLM-based legal assistant",
     metadata |-> <<<<"industry", "legal">>, <<"security_level", "high">>>>]

RECURSIVE AddAllMetadata(_, _)
\* The add_metadata loop of Template::apply_to_context.
AddAllMetadata(m, pairs) ==
    IF pairs = <<>> THEN m
    ELSE AddAllMetadata(MapInsert(m, Head(pairs)[1], Head(pairs)[2]), Tail(pairs))

\* Template::apply_to_context.
apply_to_context(template, ctx) ==
    [ctx EXCEPT !.starting_hints = Some(template.starting_hints),
                !.domain = Some(template.domain),
                !.metadata = AddAllMetadata(ctx.metadata, template.metadata)]

\* The contexts sessions are created with: Session::new, and Session::from_template
\* followed by the persona assignment of new_session.
ContextSeeds ==
    { Context_new,
      with_persona(apply_to_context(LegalAssistant, Context_new), "ProductManager") }

\* The initial value of parse_question_response's own state: nothing parsed yet.
NothingParsed == [kind |-> "None", question |-> None, error |-> ""]

\* The session variables of a session built on the context seed.
InitSession(seed) ==
    /\ state = "Initial"
    /\ max_questions \in 0..MaxBudget
    /\ history = seed.history
    /\ current_index = seed.current_index
    /\ starting_hints = seed.starting_hints
    /\ domain = seed.domain
    /\ persona = seed.persona
    /\ metadata = seed.metadata
    /\ current_question = None
    /\ output = None
    /\ overflow_checks \in BOOLEAN
    /\ panicked = FALSE
    /\ pending_origin = "none"
    /\ lastOp = "new"
    /\ lastResult = "Ok"
    /\ lastCalls = 0
    /\ lastAnswer = None

\* The parser variables before any response was parsed.
InitParserVars ==
    /\ llm_response = <<>>
    /\ parsed = NothingParsed
    /\ clock = 0
    /\ files = {}

\* The assembler variables before any text was assembled.
InitAssemblerVars ==
    /\ markdown = <<>>
    /\ assembled = None

Init ==
    /\ \E seed \in ContextSeeds : InitSession(seed)
    /\ InitParserVars
    /\ InitAssemblerVars
    /\ cli = None
    /\ collaborator_calls = 0

\* What every call records about itself.
Returns(op, result, calls) ==
    /\ lastOp' = op
    /\ lastResult' = result
    /\ lastCalls' = calls
    /\ lastAnswer' = None

\* What go_back and go_forward record: also the Answer Context handed back.
ReturnsAnswer(op, result, answer) ==
    /\ lastOp' = op
    /\ lastResult' = result
    /\ lastCalls' = 0
    /\ lastAnswer' = answer

\* ---------------------------------------------------------------- start
Start ==
    /\ ~panicked
    /\ state' = "Questioning"
    /\ Returns("start", "Ok", 0)
    /\ UNCHANGED <<max_questions, history, current_index, current_question, output,
                   overflow_checks, panicked, pending_origin, contextSetup, parserVars,
                   assemblerVars, callerVars>>

\* ---------------------------------------------------------------- context.rs
\* Mutant of Context_add_answer: the cursor is set before the push.
Context_add_answer_early_cursor(h, question, response) ==
    [history |-> Append(h, Answer(question, response)),
     current_index |-> Len(h)]

\* Mutant of Context_add_answer: the new entry goes to the front.
Context_add_answer_front(h, question, response) ==
    [history |-> <<Answer(question, response)>> \o h,
     current_index |-> Len(h) + 1]

\* Context::add_answer: push at the tail, cursor to the new length.
Context_add_answer(h, question, response) ==
    [history |-> Append(h, Answer(question, response)),
     current_index |-> Len(h) + 1]

\* The guard of Context::go_back.
CanGoBack(idx) == idx > 0

\* Mutant of Context_go_back: reads the entry before moving the cursor.
Context_go_back_stale(h, idx) ==
    IF CanGoBack(idx)
    THEN [current_index |-> idx - 1, ret |-> HistoryGet(h, idx)]
    ELSE [current_index |-> idx, ret |-> None]

\* Context::go_back: the cursor after the call and the Option<&Answer> returned.
Context_go_back(h, idx) ==
    IF CanGoBack(idx)
    THEN [current_index |-> idx - 1, ret |-> HistoryGet(h, idx - 1)]
    ELSE [current_index |-> idx, ret |-> None]

\* `self.history.len() - 1` on usize with an empty history: a panic when the build
\* checks overflow, and otherwise usize::MAX.
LenMinusOneOverflows(len) == len = 0

\* The guard of Context::go_forward, `current_index < history.len() - 1`, where the
\* subtraction did not panic. With len = 0 the right-hand side is usize::MAX
\* (2^64 - 1), above every cursor value this model reaches (current_index <= MaxIndex).
CanGoForward(idx, len) ==
    IF LenMinusOneOverflows(len) THEN TRUE ELSE idx < len - 1

\* Mutant of Context_go_forward: reads the entry before moving the cursor.
Context_go_forward_stale(h, idx, checks) ==
    IF LenMinusOneOverflows(Len(h)) /\ checks
    THEN [panic |-> TRUE, current_index |-> idx, ret |-> None]
    ELSE IF CanGoForward(idx, Len(h))
         THEN [panic |-> FALSE, current_index |-> idx + 1, ret |-> HistoryGet(h, idx)]
         ELSE [panic |-> FALSE, current_index |-> idx, ret |-> None]

\* Context::go_forward: whether it panics, and otherwise the cursor after the call
\* and the Option<&Answer> returned.
Context_go_forward(h, idx, checks) ==
    IF LenMinusOneOverflows(Len(h)) /\ checks
    THEN [panic |-> TRUE, current_index |-> idx, ret |-> None]
    ELSE IF CanGoForward(idx, Len(h))
         THEN [panic |-> FALSE, current_index |-> idx + 1, ret |-> HistoryGet(h, idx + 1)]
         ELSE [panic |-> FALSE, current_index |-> idx, ret |-> None]

\* ---------------------------------------------------------------- transcript
\* The format! of one history entry in get_context_string, i being the 0-based
\* position enumerate() gives.
QaBlock(i, answer) ==
    "Q" \o ToString(i + 1) \o ": " \o answer.question.text \o "\n"
    \o "A" \o ToString(i + 1) \o ": " \o answer.response \o "\n\n"

\* The loop of get_context_string over history.iter().enumerate(): the strings it
\* pushes, from position i on.
RECURSIVE HistoryPieces(_, _)
HistoryPieces(h, i) ==
    IF i >= Len(h) THEN <<>> ELSE <<QaBlock(i, h[i + 1])>> \o HistoryPieces(h, i + 1)

\* Mutant of ContextPieces: only the entries before the cursor are rendered.
ContextPieces_to_cursor(ctx) ==
    (IF IsSome(ctx.starting_hints)
     THEN <<"Starting hints: " \o Unwrap(ctx.starting_hints) \o "\n\n">> ELSE <<>>)
    \o (IF IsSome(ctx.domain)
        THEN <<"Domain: " \o Unwrap(ctx.domain) \o "\n\n">> ELSE <<>>)
    \o <<"Previous questions and answers:\n">>
    \o HistoryPieces(SubSeq(ctx.history, 1,
                             IF ctx.current_index < Len(ctx.history)
                             THEN ctx.current_index ELSE Len(ctx.history)), 0)

\* Context::get_context_string: the strings it pushes onto the result, in order.
ContextPieces(ctx) ==
    (IF IsSome(ctx.starting_hints)
     THEN <<"Starting hints: " \o Unwrap(ctx.starting_hints) \o "\n\n">> ELSE <<>>)
    \o (IF IsSome(ctx.domain)
        THEN <<"Domain: " \o Unwrap(ctx.domain) \o "\n\n">> ELSE <<>>)
    \o <<"Previous questions and answers:\n">>
    \o HistoryPieces(ctx.history, 0)

\* String::push_str over a sequence of pieces.
RECURSIVE Concat(_)
Concat(pieces) == IF pieces = <<>> THEN "" ELSE Head(pieces) \o Concat(Tail(pieces))

\* Context::get_context_string: the String returned.
get_context_string(ctx) == Concat(ContextPieces(ctx))

\* ---------------------------------------------------------------- collaborator
\* Outcomes of QuestionGenerator::generate_next_question, that is of
\* LlmClient::generate_question: a parsed Question, a transport failure of
\* send_chat_request, an Err of parse_question_response, or a panic inside
\* parse_question_response (the unwrap()s on the response file, the scale[0] and
\* scale[1] indexing).
QuestionOutcomes ==
    { [kind |-> "Ok", question |-> Some(q)] : q \in QuestionPool }
    \cup { [kind |-> k, question |-> None] : k \in {"CollaboratorError", "ParseError", "Panic"} }

\* Outcomes of OutputGenerator::generate_project_definition: the collaborator's text
\* or a transport failure; parse_markdown_definition itself always returns Ok.
DocumentOutcomes ==
    { [kind |-> "Ok", text |-> Some(md)] : md \in MarkdownResponses }
    \cup { [kind |-> "CollaboratorError", text |-> None] }

\* ProjectDefinition::to_markdown, kept symbolic here.
to_markdown(definition) == [rendered |-> definition]

\* ---------------------------------------------------------------- session.rs
\* Mutant of InQuestioning: a session that was never started passes too.
InQuestioning_or_initial(s) == s \in {"Questioning", "Initial"}

\* The state test that opens generate_next_question and answer_question.
InQuestioning(s) == s = "Questioning"

\* Mutant of BudgetReached: off by one.
BudgetReached_strict(len, max) == len > max

\* The budget test of generate_next_question.
BudgetReached(len, max) == len >= max

\* Mutant of take: reads the pending question without clearing it.
take_keeps(o) == [value |-> o, left |-> o]

\* Option::take as answer_question uses it on current_question: the value handed
\* out and what the field holds afterwards.
take(o) == [value |-> o, left |-> None]

\* Mutant of StateAfterDocument: the session is never marked Completed.
StateAfterDocument_stuck(kind) == "Generating"

\* Mutant of StateAfterDocument: the session is completed whatever the outcome.
StateAfterDocument_completes(kind) == "Completed"

\* The state generate_project_definition leaves: Generating is set before the
\* collaborator is awaited, Completed only after it answered.
StateAfterDocument(kind) == IF kind = "Ok" THEN "Completed" ELSE "Generating"

\* Mutant of ApplyQuestionOutcome: a failed request drops the pending question.
ApplyQuestionOutcome_drops(out) ==
    /\ Returns("generate_next_question", out.kind, 1)
    /\ panicked' = (out.kind = "Panic")
    /\ IF out.kind = "Ok"
       THEN /\ current_question' = out.question
            /\ pending_origin' = "request"
       ELSE /\ current_question' = None
            /\ pending_origin' = "none"
    /\ UNCHANGED state

\* generate_next_question past its two checks: one collaborator call, whose Err is
\* returned by `?` before any assignment, and whose Ok value becomes the pending
\* question.
ApplyQuestionOutcome(out) ==
    /\ Returns("generate_next_question", out.kind, 1)
    /\ panicked' = (out.kind = "Panic")
    /\ IF out.kind = "Ok"
       THEN /\ current_question' = out.question
            /\ pending_origin' = "request"
       ELSE UNCHANGED <<current_question, pending_origin>>
    /\ UNCHANGED state

\* SessionManager::generate_next_question
GenerateNextQuestion ==
    /\ ~panicked
    /\ IF ~InQuestioning(state)
       THEN /\ Returns("generate_next_question", "StateError", 0)
            /\ UNCHANGED <<state, current_question, pending_origin, panicked>>
       ELSE IF BudgetReached(Len(history), max_questions)
       THEN /\ state' = "Generating"
            /\ Returns("generate_next_question", "BudgetExhausted", 0)
            /\ UNCHANGED <<current_question, pending_origin, panicked>>
       ELSE \E out \in QuestionOutcomes : ApplyQuestionOutcome(out)
    /\ UNCHANGED <<max_questions, history, current_index, output, overflow_checks,
                   contextSetup, parserVars,
                   assemblerVars, callerVars>>

\* SessionManager::answer_question
AnswerQuestion ==
    /\ ~panicked
    /\ \E response \in Responses :
        IF ~InQuestioning(state)
        THEN /\ Returns("answer_question", "StateError", 0)
             /\ UNCHANGED <<history, current_index, current_question, pending_origin>>
        ELSE IF IsSome(current_question)
        THEN /\ Len(history) < MaxHistory
             /\ LET taken == take(current_question)
                    ctx == Context_add_answer(history, Unwrap(taken.value), response)
                IN /\ history' = ctx.history
                   /\ current_index' = ctx.current_index
                   /\ current_question' = taken.left
                   /\ pending_origin' = IF IsSome(taken.left) THEN pending_origin ELSE "none"
             /\ Returns("answer_question", "Ok", 0)
        ELSE /\ Returns("answer_question", "NoPendingQuestion", 0)
             /\ UNCHANGED <<history, current_index, current_question, pending_origin>>
    /\ UNCHANGED <<state, max_questions, output, overflow_checks, panicked,
                   contextSetup, parserVars,
                   assemblerVars, callerVars>>

\* SessionManager::go_back
GoBack ==
    /\ ~panicked
    /\ LET ctx == Context_go_back(history, current_index)
       IN /\ current_index' = ctx.current_index
          /\ IF IsSome(ctx.ret)
             THEN /\ current_question' = Some(Unwrap(ctx.ret).question)
                  /\ pending_origin' = "navigation"
                  /\ ReturnsAnswer("go_back", "Ok", ctx.ret)
             ELSE /\ ReturnsAnswer("go_back", "CannotGoBack", ctx.ret)
                  /\ UNCHANGED <<current_question, pending_origin>>
    /\ UNCHANGED <<state, max_questions, history, output, overflow_checks, panicked,
                   contextSetup, parserVars,
                   assemblerVars, callerVars>>

\* SessionManager::go_forward
GoForward ==
    /\ ~panicked
    /\ current_index < MaxIndex
    /\ LET ctx == Context_go_forward(history, current_index, overflow_checks)
       IN /\ current_index' = ctx.current_index
          /\ panicked' = ctx.panic
          /\ IF ctx.panic
             THEN /\ ReturnsAnswer("go_forward", "Panic", ctx.ret)
                  /\ UNCHANGED <<current_question, pending_origin>>
             ELSE IF IsSome(ctx.ret)
             THEN /\ current_question' = Some(Unwrap(ctx.ret).question)
                  /\ pending_origin' = "navigation"
                  /\ ReturnsAnswer("go_forward", "Ok", ctx.ret)
             ELSE /\ ReturnsAnswer("go_forward", "CannotGoForward", ctx.ret)
                  /\ UNCHANGED <<current_question, pending_origin>>
    /\ UNCHANGED <<state, max_questions, history, output, overflow_checks,
                   contextSetup, parserVars,
                   assemblerVars, callerVars>>

\* SessionManager::generate_project_definition
GenerateProjectDefinition ==
    /\ ~panicked
    /\ \E out \in DocumentOutcomes :
        /\ state' = StateAfterDocument(out.kind)
        /\ Returns("generate_project_definition", out.kind, 1)
        /\ IF out.kind = "Ok"
           THEN output' = Some(to_markdown(parse_markdown_definition(Unwrap(out.text))))
           ELSE UNCHANGED output
    /\ UNCHANGED <<max_questions, history, current_index, current_question,
                   overflow_checks, panicked, pending_origin, contextSetup, parserVars,
                   assemblerVars, callerVars>>

\* ---------------------------------------------------------------- persistence
\* The Context and the Session the variables hold, as the structs of the source.
CurrentContext ==
    [starting_hints |-> starting_hints, domain |-> domain, history |-> history,
     current_index |-> current_index, persona |-> persona, metadata |-> metadata]

CurrentSession ==
    [context |-> CurrentContext, state |-> state, max_questions |-> max_questions,
     current_question |-> current_question, output |-> output]

\* serde_json's rendering of Option<T>: null, or the value itself.
JsonNull == [json |-> "null"]
JsonValue(v) == [json |-> "value", value |-> v]
OptionToJson(o) == IF IsSome(o) THEN JsonValue(Unwrap(o)) ELSE JsonNull
OptionFromJson(j) == IF j = JsonNull THEN None ELSE Some(j.value)

\* #[derive(Serialize, Deserialize)] on Question.
QuestionToJson(q) ==
    [text |-> q.text, question_type |-> q.question_type,
     options |-> OptionToJson(q.options), scale |-> OptionToJson(q.scale),
     help_text |-> OptionToJson(q.help_text), id |-> q.id]

QuestionFromJson(j) ==
    [id |-> j.id, text |-> j.text, question_type |-> j.question_type,
     options |-> OptionFromJson(j.options), scale |-> OptionFromJson(j.scale),
     help_text |-> OptionFromJson(j.help_text)]

\* #[derive(Serialize, Deserialize)] on Answer (its timestamp is not modelled).
AnswerToJson(a) == [question |-> QuestionToJson(a.question), response |-> a.response]
AnswerFromJson(j) == Answer(QuestionFromJson(j.question), j.response)

\* #[derive(Serialize, Deserialize)] on Context.
ContextToJson(c) ==
    [starting_hints |-> OptionToJson(c.starting_hints), domain |-> OptionToJson(c.domain),
     history |-> [i \in 1..Len(c.history) |-> AnswerToJson(c.history[i])],
     current_index |-> c.current_index, persona |-> c.persona, metadata |-> c.metadata]

ContextFromJson(j) ==
    [starting_hints |-> OptionFromJson(j.starting_hints), domain |-> OptionFromJson(j.domain),
     history |-> [i \in 1..Len(j.history) |-> AnswerFromJson(j.history[i])],
     current_index |-> j.current_index, persona |-> j.persona, metadata |-> j.metadata]

\* Serialize for Session: the two #[serde(skip)] fields are not written.
SessionToJson(session) ==
    [context |-> ContextToJson(session.context), state |-> session.state,
     max_questions |-> session.max_questions]

\* Mutant of SessionFromJson: the state is not read back.
SessionFromJson_initial(j) ==
    [context |-> ContextFromJson(j.context), state |-> "Initial",
     max_questions |-> j.max_questions, current_question |-> None, output |-> None]

\* Deserialize for Session: the two #[serde(skip)] fields take their Default.
SessionFromJson(j) ==
    [context |-> ContextFromJson(j.context), state |-> j.state,
     max_questions |-> j.max_questions, current_question |-> None, output |-> None]

\* Session::save_to_file: the text written to the file.
save_to_file(session) == SessionToJson(session)

\* Session::load_from_file: the Session read from that text.
load_from_file(json) == SessionFromJson(json)

\* A session is saved and the file is loaded in its place (continue_session on a
\* file save_to_file wrote); either call can fail on the file system.
SaveThenLoad ==
    /\ ~panicked
    /\ \E io \in {"Ok", "IoError"} :
        IF io = "Ok"
        THEN LET loaded == load_from_file(save_to_file(CurrentSession))
             IN /\ starting_hints' = loaded.context.starting_hints
                /\ domain' = loaded.context.domain
                /\ history' = loaded.context.history
                /\ current_index' = loaded.context.current_index
                /\ persona' = loaded.context.persona
                /\ metadata' = loaded.context.metadata
                /\ state' = loaded.state
                /\ max_questions' = loaded.max_questions
                /\ current_question' = loaded.current_question
                /\ output' = loaded.output
                /\ pending_origin' = "none"
                /\ Returns("load_from_file", "Ok", 0)
        ELSE /\ Returns("load_from_file", "IoError", 0)
             /\ UNCHANGED <<starting_hints, domain, history, current_index, persona,
                            metadata, state, max_questions, current_question, output,
                            pending_origin>>
    /\ UNCHANGED <<overflow_checks, panicked, parserVars,
                   assemblerVars, callerVars>>

Next ==
    \/ SaveThenLoad
    \/ Start
    \/ GenerateNextQuestion
    \/ AnswerQuestion
    \/ GoBack
    \/ GoForward
    \/ GenerateProjectDefinition

Spec == Init /\ [][Next]_vars

\* ---------------------------------------------------------------- llm.rs
\* serde_json::Value, as far as parse_question_response looks into it.
Value_Null == [json |-> "Null"]
Value_String(s) == [json |-> "String", s |-> s]
Value_Number(n) == [json |-> "Number", n |-> n]
Value_Array(items) == [json |-> "Array", items |-> items]
Value_Object(fields) == [json |-> "Object", fields |-> fields]

\* Value's Index<&str>: Null unless the value is an object that has the key.
Index(v, key) ==
    IF v.json = "Object" /\ key \in DOMAIN v.fields THEN v.fields[key] ELSE Value_Null

as_str(v) == IF v.json = "String" THEN Some(v.s) ELSE None
as_array(v) == IF v.json = "Array" THEN Some(v.items) ELSE None
\* Some only for a number that is a non-negative integer.
as_u64(v) == IF v.json = "Number" /\ v.n >= 0 THEN Some(v.n) ELSE None
\* `as u8` keeps the low eight bits.
as_u8(n) == n % 256

\* A response text is a sequence of tokens: a run of whitespace, one of the two
\* fence markers (three backquotes, with or without json after them), the text of
\* one JSON value, or any other text.
Whitespace == [tok |-> "whitespace"]
FenceJson == [tok |-> "fence_json"]
Fence == [tok |-> "fence"]
Prose == [tok |-> "prose"]
JsonText(v) == [tok |-> "json", value |-> v]

\* str::trim: leading and trailing whitespace removed.
RECURSIVE trim_start(_)
trim_start(text) ==
    IF text # <<>> /\ Head(text) = Whitespace THEN trim_start(Tail(text)) ELSE text

RECURSIVE trim_end(_)
trim_end(text) ==
    IF text # <<>> /\ text[Len(text)] = Whitespace
    THEN trim_end(SubSeq(text, 1, Len(text) - 1)) ELSE text

trim(text) == trim_end(trim_start(text))

\* Mutant of replace: the pattern is left in the text.
replace_keeps(text, pattern) == text

\* str::replace(pattern, ""): every occurrence of the pattern removed.
replace(text, pattern) == SelectSeq(text, LAMBDA t : t # pattern)

\* serde_json::from_str: whitespace around the value is skipped; anything but
\* exactly one JSON value is an error.
from_str(text) ==
    LET body == SelectSeq(text, LAMBDA t : t # Whitespace)
    IN IF Len(body) = 1 /\ body[1].tok = "json" THEN Some(body[1].value) ELSE None

\* The iterator chain filter_map(|v| v.as_str()...).collect() over an array.
RECURSIVE filter_map_as_str(_)
filter_map_as_str(items) ==
    IF items = <<>> THEN <<>>
    ELSE (IF IsSome(as_str(Head(items))) THEN <<Unwrap(as_str(Head(items)))>> ELSE <<>>)
         \o filter_map_as_str(Tail(items))

\* What a call of parse_question_response comes to.
ParseOk(question) == [kind |-> "Ok", question |-> Some(question), error |-> ""]
ParseErr(error) == [kind |-> "Err", question |-> None, error |-> error]
ParsePanic == [kind |-> "Panic", question |-> None, error |-> ""]

\* The RatingScale arm: Vec indexing panics on a missing element.
rating_scale_from(id, question_text, parsed_json) ==
    LET scale == as_array(Index(parsed_json, "scale"))
    IN IF ~IsSome(scale) THEN ParseErr("Missing scale for RatingScale question")
       ELSE IF Len(Unwrap(scale)) < 1 THEN ParsePanic
       ELSE IF ~IsSome(as_u64(Unwrap(scale)[1])) THEN ParseErr("Invalid min value in scale")
       ELSE IF Len(Unwrap(scale)) < 2 THEN ParsePanic
       ELSE IF ~IsSome(as_u64(Unwrap(scale)[2])) THEN ParseErr("Invalid max value in scale")
       ELSE ParseOk(rating_scale(id, question_text,
                                 as_u8(Unwrap(as_u64(Unwrap(scale)[1]))),
                                 as_u8(Unwrap(as_u64(Unwrap(scale)[2])))))

\* The match on question_type that builds the Question.
question_from(question_type, id, question_text, parsed_json) ==
    CASE question_type = "MultipleChoice" ->
           LET options == as_array(Index(parsed_json, "options"))
           IN IF ~IsSome(options)
              THEN ParseErr("Missing options for MultipleChoice question")
              ELSE ParseOk(multiple_choice(id, question_text,
                                           filter_map_as_str(Unwrap(options))))
      [] question_type = "YesNo" -> ParseOk(yes_no(id, question_text))
      [] question_type = "RatingScale" ->
           rating_scale_from(id, question_text, parsed_json)
      [] question_type = "FreeText" -> ParseOk(free_text(id, question_text))

QuestionTypeNames == {"MultipleChoice", "YesNo", "RatingScale", "FreeText"}

\* parse_question_response from serde_json::from_str on: the cleaned text, at
\* second now of the clock.
parse_cleaned(cleaned, now) ==
    LET parsed_value == from_str(cleaned)
    IN IF ~IsSome(parsed_value) THEN ParseErr("Failed to parse LLM response as JSON")
       ELSE
       LET parsed_json == Unwrap(parsed_value)
           question_type == as_str(Index(parsed_json, "question_type"))
           question_text == as_str(Index(parsed_json, "question_text"))
           help_text == as_str(Index(parsed_json, "help_text"))
       IN IF ~IsSome(question_type) \/ Unwrap(question_type) \notin QuestionTypeNames
          THEN ParseErr("Invalid question type in LLM response")
          ELSE IF ~IsSome(question_text)
          THEN ParseErr("Missing question_text in LLM response")
          ELSE
          LET built == question_from(Unwrap(question_type), "q_" \o ToString(now),
                                     Unwrap(question_text), parsed_json)
          IN IF built.kind = "Ok" /\ IsSome(help_text)
             THEN ParseOk(with_help_text(Unwrap(built.question), Unwrap(help_text)))
             ELSE built

\* LlmClient::parse_question_response, given the response files that exist:
\* File::create_new(..).unwrap() panics when this second's file is already there.
parse_question_response(response, now, existing) ==
    LET cleaned == replace(replace(trim(response), FenceJson), Fence)
    IN IF now \in existing
       THEN [outcome |-> ParsePanic, files |-> existing]
       ELSE [outcome |-> parse_cleaned(cleaned, now), files |-> existing \cup {now}]

\* --- the texts the collaborator can answer with
\* A JSON object with the keys whose value is given (None: the key is absent).
Object(question_type, question_text, options, scale, help_text) ==
    LET given == [question_type |-> question_type, question_text |-> question_text,
                  options |-> options, scale |-> scale, help_text |-> help_text]
    IN Value_Object([k \in {key \in DOMAIN given : IsSome(given[key])} |->
                        Unwrap(given[k])])

QuestionTypeValues ==
    {None, Some(Value_Number(7)), Some(Value_String("Essay"))}
    \cup {Some(Value_String(name)) : name \in QuestionTypeNames}

QuestionTextValues == {None, Some(Value_Number(7)), Some(Value_String("Ship it?"))}

OptionsValues ==
    {None, Some(Value_String("a, b")),
     Some(Value_Array(<<Value_Number(1), Value_String("Maybe")>>))}

ScaleValues ==
    {None, Some(Value_String("1-5")),
     Some(Value_Array(<<>>)),
     Some(Value_Array(<<Value_Number(1)>>)),
     Some(Value_Array(<<Value_String("low")>>)),
     Some(Value_Array(<<Value_Number(1), Value_Number(5)>>)),
     Some(Value_Array(<<Value_Number(300), Value_Number(2)>>)),
     Some(Value_Array(<<Value_Number(1), Value_Number(-5)>>))}

HelpTextValues == {None, Some(Value_Number(7)), Some(Value_String("hint"))}

\* Objects with every question_type and question_text; objects of each kind with
\* every options and scale; objects of each kind with every help_text; and a
\* JSON value that is no object.
JsonValues ==
    {Object(qt, qx, Some(Value_Array(<<Value_String("a")>>)),
            Some(Value_Array(<<Value_Number(1), Value_Number(5)>>)), None) :
        qt \in QuestionTypeValues, qx \in QuestionTextValues}
    \cup {Object(Some(Value_String(name)), Some(Value_String("Ship it?")), op, sc, None) :
            name \in QuestionTypeNames, op \in OptionsValues, sc \in ScaleValues}
    \cup {Object(Some(Value_String(name)), Some(Value_String("Ship it?")),
                 Some(Value_Array(<<Value_String("a")>>)),
                 Some(Value_Array(<<Value_Number(1), Value_Number(5)>>)), ht) :
            name \in QuestionTypeNames, ht \in HelpTextValues}
    \cup {Value_Array(<<>>)}

\* The JSON values the collaborator also sends inside a json code fence.
FencedJsonValues ==
    {Object(qt, Some(Value_String("Ship it?")), None,
            Some(Value_Array(<<Value_Number(1), Value_Number(5)>>)), None) :
        qt \in QuestionTypeValues}

\* The text of a JSON value inside a fenced code block: the json fence line, the
\* value, the closing fence line, with whitespace around.
Fenced(v) ==
    <<Whitespace, FenceJson, Whitespace, JsonText(v), Whitespace, Fence, Whitespace>>

\* Each JSON value bare, some inside a fence, and texts that are no JSON.
ResponseTexts ==
    {<<JsonText(v)>> : v \in JsonValues \cup FencedJsonValues}
    \cup {Fenced(v) : v \in FencedJsonValues}
    \cup {<<Fence, JsonText(v), Fence>> : v \in FencedJsonValues}
    \cup {<<>>, <<Prose>>,
          <<Prose, Whitespace, JsonText(Object(Some(Value_String("YesNo")),
                                               Some(Value_String("Ship it?")),
                                               None, None, None))>>}

\* One call of parse_question_response on a text the collaborator returned.
ParseQuestionResponse ==
    /\ ~panicked
    /\ \E response \in ResponseTexts :
         LET call == parse_question_response(response, clock, files)
         IN /\ llm_response' = response
            /\ parsed' = call.outcome
            /\ files' = call.files
            /\ panicked' = (call.outcome.kind = "Panic")
            /\ Returns("parse_question_response", call.outcome.kind, 0)
    /\ UNCHANGED <<state, max_questions, history, current_index, current_question,
                   output, overflow_checks, pending_origin, contextSetup, clock,
                   assemblerVars, callerVars>>

\* A second of wall-clock time passes.
Tick ==
    /\ ~panicked
    /\ clock < MaxClock
    /\ clock' = clock + 1
    /\ UNCHANGED <<state, max_questions, history, current_index, current_question,
                   output, overflow_checks, panicked, pending_origin, lastOp,
                   lastResult, lastCalls, lastAnswer, contextSetup, llm_response,
                   parsed, files, assemblerVars, callerVars>>

\* An LlmClient on its own: no call of the session is made.
InitParser ==
    /\ InitSession(Context_new)
    /\ max_questions = MaxBudget
    /\ InitParserVars
    /\ InitAssemblerVars
    /\ cli = None
    /\ collaborator_calls = 0

NextParser ==
    \/ ParseQuestionResponse
    \/ Tick

SpecParser == InitParser /\ [][NextParser]_vars

\* ---------------------------------------------------------------- assembler
\* The collaborator's document grows by a line.
WriteLine ==
    /\ assembled = None
    /\ Len(markdown) < MaxLines
    /\ \E line \in DocumentLines : markdown' = Append(markdown, line)
    /\ UNCHANGED <<state, max_questions, history, current_index, current_question,
                   output, overflow_checks, panicked, pending_origin, lastOp,
                   lastResult, lastCalls, lastAnswer, contextSetup, parserVars,
                   assembled, callerVars>>

\* One call of parse_markdown_definition on the document.
ParseMarkdownDefinition ==
    /\ assembled = None
    /\ assembled' = Some(parse_markdown_definition(markdown))
    /\ Returns("parse_markdown_definition", "Ok", 0)
    /\ UNCHANGED <<state, max_questions, history, current_index, current_question,
                   output, overflow_checks, panicked, pending_origin, contextSetup,
                   parserVars, markdown, callerVars>>

\* An OutputGenerator on its own, handed the example document or a document
\* written line by line.
InitAssembler ==
    /\ InitSession(Context_new)
    /\ max_questions = MaxBudget
    /\ InitParserVars
    /\ markdown \in {<<>>, ExampleDocument}
    /\ assembled = None
    /\ cli = None
    /\ collaborator_calls = 0

NextAssembler ==
    \/ WriteLine
    \/ ParseMarkdownDefinition

SpecAssembler == InitAssembler /\ [][NextAssembler]_vars

\* ---------------------------------------------------------------- main.rs
\* Context::with_hints and Context::with_domain: a default Context with one field set.
with_hints(hints) == [Context_new EXCEPT !.starting_hints = Some(hints)]
with_domain(d) == [Context_new EXCEPT !.domain = Some(d)]

\* TemplateRepository::get_template
get_template(name) == IF name = LegalAssistant.name THEN Some(LegalAssistant) ELSE None

\* str::to_lowercase on the persona names used here.
to_lowercase(name) ==
    CASE name = "Architect" -> "architect"
      [] name = "PM" -> "pm"
      [] OTHER -> name

\* The match of new_session on the lower-cased persona name.
persona_of(persona_name) ==
    LET name == to_lowercase(persona_name)
    IN CASE name \in {"pm", "product", "product_manager"} -> "ProductManager"
         [] name \in {"architect", "llm_architect"} -> "LlmArchitect"
         [] name \in {"ux", "designer", "ux_designer"} -> "UxDesigner"
         [] name \in {"compliance", "compliance_officer"} -> "ComplianceOfficer"
         [] OTHER -> "Default"

\* The Context of the session new_session builds from its arguments.
new_session_context(args) ==
    LET built ==
          IF IsSome(args.template_name)
          THEN apply_to_context(Unwrap(get_template(Unwrap(args.template_name))),
                                Context_new)
          ELSE LET from_hints == IF IsSome(args.hints)
                                 THEN with_hints(Unwrap(args.hints)) ELSE Context_new
               IN IF IsSome(args.domain)
                  THEN with_domain(Unwrap(args.domain)) ELSE from_hints
    IN IF IsSome(args.persona_name)
       THEN [built EXCEPT !.persona = persona_of(Unwrap(args.persona_name))]
       ELSE built

\* Arguments of the `new` command: with no template, each of hints and domain
\* given or not; and a known template with a persona.
CliArgs ==
    {[hints |-> h, domain |-> d, max_questions |-> MaxBudget, template_name |-> None,
      persona_name |-> p] :
        h \in {None, Some("a legal assistant")}, d \in {None, Some("Legal")},
        p \in {Some("Architect")}}
    \cup {[hints |-> None, domain |-> None, max_questions |-> MaxBudget,
           template_name |-> Some("Legal Assistant"), persona_name |-> Some("PM")]}

\* new_session up to its call of run_wizard.
InitCli ==
    /\ \E args \in CliArgs :
         /\ cli = Some(args)
         /\ collaborator_calls = 0
         /\ InitSession(new_session_context(args))
         /\ max_questions = args.max_questions
    /\ InitParserVars
    /\ InitAssemblerVars

\* run_wizard: start, then questions, answers and "back" until the document.
NextCli ==
    \/ Start
    \/ GenerateNextQuestion
    \/ AnswerQuestion
    \/ GoBack
    \/ GenerateProjectDefinition

SpecCli == InitCli /\ [][NextCli]_vars

\* ---------------------------------------------------------------- question loop
\* A caller that starts the session, then asks for a question and answers it, over
\* and over, until it is told the budget is exhausted. Every collaborator call
\* returns a parsed Question. The caller counts the calls.
LoopStartSession ==
    /\ state = "Initial"
    /\ Start

LoopRequest ==
    /\ ~panicked
    /\ InQuestioning(state)
    /\ current_question = None
    /\ IF BudgetReached(Len(history), max_questions)
       THEN /\ state' = "Generating"
            /\ Returns("generate_next_question", "BudgetExhausted", 0)
            /\ UNCHANGED <<current_question, pending_origin, panicked,
                           collaborator_calls>>
       ELSE /\ \E out \in {o \in QuestionOutcomes : o.kind = "Ok"} :
                 ApplyQuestionOutcome(out)
            /\ collaborator_calls' = collaborator_calls + 1
    /\ UNCHANGED <<max_questions, history, current_index, output, overflow_checks,
                   contextSetup, parserVars, assemblerVars, cli>>

LoopAnswer ==
    /\ InQuestioning(state)
    /\ IsSome(current_question)
    /\ AnswerQuestion

NextLoop ==
    \/ LoopStartSession
    \/ LoopRequest
    \/ LoopAnswer

\* The caller keeps going: no step of the loop waits forever.
SpecLoop == Init /\ [][NextLoop]_vars /\ WF_vars(NextLoop)

\* ================================================================ claims
\* A step of [][...]_vars in which lastOp' = op is a call of op: no other action
\* writes that value, and a step that changes nothing satisfies [][A]_vars as it is.

\* C1 (as claimed): in every reachable state 0 <= current_index <= len(history),
\* go_forward on an empty history included.
C1_IndexWithinHistory ==
    0 <= current_index /\ current_index <= Len(history)

\* C2 (as claimed): no generate_next_question reaches the collaborator while the
\* question set by an earlier successful generate_next_question is still unanswered.
C2_NoRequestWhilePending ==
    [][ (lastOp' = "generate_next_question" /\ lastCalls' = 1)
        => ~(IsSome(current_question) /\ pending_origin = "request") ]_vars

\* C3: generate_next_question in Questioning with len(history) >= max_questions
\* moves to Generating, returns the budget-exhausted outcome, does not call the
\* collaborator and leaves history and the pending question alone.
C3_BudgetExhausted ==
    [][ (lastOp' = "generate_next_question" /\ state = "Questioning"
         /\ Len(history) >= max_questions)
        => /\ state' = "Generating"
           /\ lastResult' = "BudgetExhausted"
           /\ lastCalls' = 0
           /\ history' = history
           /\ current_question' = current_question ]_vars

\* C3 witness: a budget above zero was used up and the request was turned down.
C3_Witness ==
    /\ lastOp = "generate_next_question" /\ lastResult = "BudgetExhausted"
    /\ state = "Generating"
    /\ max_questions > 0 /\ Len(history) = max_questions

\* C4: generate_next_question outside Questioning fails with a state error, does not
\* call the collaborator and changes neither state, history, cursor nor pending
\* question.
C4_RequestOutsideQuestioning ==
    [][ (lastOp' = "generate_next_question" /\ state # "Questioning")
        => /\ lastResult' = "StateError"
           /\ lastCalls' = 0
           /\ UNCHANGED <<state, history, current_index, current_question>> ]_vars

\* C4 witness: a request was rejected in a session that is not Questioning.
C4_Witness ==
    /\ lastOp = "generate_next_question" /\ lastResult = "StateError"
    /\ state \in {"Initial", "Generating", "Completed"}

\* C5: a generate_next_question that ends in a collaborator or parser failure was
\* made in Questioning under budget, called the collaborator exactly once, and
\* leaves state, history and the pending question as they were.
C5_FailureSurfacedNoRetry ==
    [][ (lastOp' = "generate_next_question"
         /\ lastResult' \in {"CollaboratorError", "ParseError"})
        => /\ state = "Questioning" /\ Len(history) < max_questions
           /\ state' = "Questioning"
           /\ history' = history
           /\ current_question' = current_question
           /\ lastCalls' = 1 ]_vars

\* C5 witness: a request failed while an earlier question was still pending.
C5_Witness ==
    /\ lastOp = "generate_next_question" /\ lastResult = "ParseError"
    /\ state = "Questioning" /\ IsSome(current_question)

\* C6: answer_question succeeds exactly in Questioning with a pending question, then
\* appends one Answer embedding that question and clears it; without a pending
\* question it fails with NoPendingQuestion, in any other state with a state error,
\* both leaving history, cursor and state alone. A second answer_question right
\* after another records nothing.
C6_AnswerCurrent ==
    [][ (lastOp' = "answer_question")
        => /\ IF state = "Questioning" /\ IsSome(current_question)
              THEN /\ lastResult' = "Ok"
                   /\ Len(history') = Len(history) + 1
                   /\ SubSeq(history', 1, Len(history)) = history
                   /\ history'[Len(history')].question = Unwrap(current_question)
                   /\ current_question' = None
                   /\ state' = state
              ELSE /\ lastResult' = IF state = "Questioning"
                                    THEN "NoPendingQuestion" ELSE "StateError"
                   /\ UNCHANGED <<history, current_index, state>>
           /\ (lastOp = "answer_question" => history' = history) ]_vars

\* C6 witness: an answer was recorded and the next answer_question found nothing
\* pending.
C6_Witness ==
    /\ lastOp = "answer_question" /\ lastResult = "NoPendingQuestion"
    /\ Len(history) >= 1 /\ current_index = Len(history)

\* C7: a successful go_back or go_forward makes the pending question the Question
\* of the entry at the new cursor and changes nothing else but the cursor; answering
\* it in Questioning appends at the tail and leaves every recorded entry as it was.
C7_NavigationMovesPendingOnly ==
    [][ /\ (lastOp' \in {"go_back", "go_forward"} /\ lastResult' = "Ok")
           => /\ current_index' < Len(history)
              /\ current_question' = Some(history[current_index' + 1].question)
              /\ UNCHANGED <<history, state, max_questions, output>>
        /\ (lastOp' = "answer_question" /\ pending_origin = "navigation"
            /\ state = "Questioning")
           => /\ lastResult' = "Ok"
              /\ Len(history') = Len(history) + 1
              /\ \A i \in 1..Len(history) : history'[i] = history[i]
              /\ history'[Len(history')].question = Unwrap(current_question) ]_vars

\* C7 witness: an answer recorded beyond the budget, which only a navigated-to
\* question allows (a request is refused once len(history) >= max_questions).
C7_Witness ==
    /\ lastOp = "answer_question" /\ lastResult = "Ok"
    /\ Len(history) > max_questions /\ max_questions > 0

\* C8: generate_project_definition in Questioning or Generating, the collaborator
\* succeeding, stores the assembled document and ends in Completed; called again in
\* Completed with an output stored it calls the collaborator again.
C8_Finalize ==
    [][ (lastOp' = "generate_project_definition")
        => /\ (state \in {"Questioning", "Generating"} /\ lastResult' = "Ok")
              => /\ state' = "Completed"
                 /\ \E md \in MarkdownResponses :
                      output' = Some(to_markdown(parse_markdown_definition(md)))
           /\ (state = "Completed" /\ IsSome(output)) => lastCalls' = 1 ]_vars

\* C8 witness: a finalize succeeded.
C8_Witness ==
    /\ lastOp = "generate_project_definition" /\ lastResult = "Ok"
    /\ state = "Completed" /\ IsSome(output)

\* C9 (as claimed): generate_project_definition in Initial or Completed is rejected
\* with a state error, without a collaborator call and without changing state or
\* output.
C9_FinalizeRejected ==
    [][ (lastOp' = "generate_project_definition" /\ state \in {"Initial", "Completed"})
        => /\ lastResult' = "StateError"
           /\ lastCalls' = 0
           /\ UNCHANGED <<state, output>> ]_vars

\* C11: saving a session and loading the file gives back the same context
\* (starting_hints, domain, persona, history, current_index, metadata), state and
\* max_questions, with no pending question and no output whatever they were.
C11_SaveLoadRoundTrip ==
    [][ (lastOp' = "load_from_file" /\ lastResult' = "Ok")
        => /\ starting_hints' = starting_hints /\ domain' = domain
           /\ persona' = persona /\ metadata' = metadata
           /\ history' = history /\ current_index' = current_index
           /\ state' = state /\ max_questions' = max_questions
           /\ current_question' = None /\ output' = None ]_vars

\* C11 witness: a templated session with answers was reloaded after finalize
\* completed it.
C11_Witness ==
    /\ lastOp = "load_from_file" /\ lastResult = "Ok"
    /\ state = "Completed" /\ Len(history) >= 2 /\ IsSome(starting_hints)
    /\ output = None /\ current_index < Len(history)

\* C12: add_answer (reached through answer_question) appends exactly one Answer,
\* with the given response, at the tail and leaves current_index = len(history),
\* wherever the cursor stood before.
C12_RecordAnswer ==
    [][ (lastOp' = "answer_question" /\ lastResult' = "Ok")
        => /\ \E r \in Responses :
                history' = Append(history, Answer(Unwrap(current_question), r))
           /\ current_index' = Len(history') ]_vars

\* C12 witness: an empty response was recorded from a rewound cursor (the history is
\* past the budget, which only answering a navigated-to question allows).
C12_Witness ==
    /\ lastOp = "answer_question" /\ lastResult = "Ok"
    /\ Len(history) > max_questions /\ history[Len(history)].response = ""
    /\ current_index = Len(history)

\* C13 (as claimed): go_back succeeds exactly when current_index > 0, then moving the
\* cursor down by one and returning the Answer at the new index; at 0 it fails and
\* leaves cursor and history alone.
C13_Rewind ==
    [][ (lastOp' = "go_back")
        => IF current_index > 0
           THEN /\ lastResult' = "Ok"
                /\ current_index' = current_index - 1
                /\ current_index' < Len(history)
                /\ lastAnswer' = Some(history[current_index' + 1])
                /\ history' = history
           ELSE /\ lastResult' = "CannotGoBack"
                /\ lastAnswer' = None
                /\ UNCHANGED <<current_index, history>> ]_vars

\* C14 (as claimed): go_forward succeeds exactly when current_index < len(history) - 1,
\* then moving the cursor up by one and returning the Answer at the new index;
\* otherwise (empty history and cursor at the end included) it fails and leaves
\* cursor and history alone.
C14_Advance ==
    [][ (lastOp' = "go_forward")
        => IF current_index < Len(history) - 1
           THEN /\ lastResult' = "Ok"
                /\ current_index' = current_index + 1
                /\ lastAnswer' = Some(history[current_index' + 1])
                /\ history' = history
           ELSE /\ lastResult' = "CannotGoForward"
                /\ lastAnswer' = None
                /\ UNCHANGED <<current_index, history>> ]_vars

\* C15: from every reachable Context, when go_back succeeds and the go_forward right
\* after it succeeds too, the cursor is back where it was and go_forward returned
\* the history entry at that index.
C15_RewindThenAdvance ==
    LET back == Context_go_back(history, current_index)
        forth == Context_go_forward(history, back.current_index, overflow_checks)
    IN (IsSome(back.ret) /\ ~forth.panic /\ IsSome(forth.ret))
       => /\ forth.current_index = current_index
          /\ current_index < Len(history)
          /\ forth.ret = Some(history[current_index + 1])

\* C15 witness: a go_forward succeeded, which takes a go_back before it, and from the
\* state it left the pair succeeds again.
C15_Witness ==
    /\ lastOp = "go_forward" /\ lastResult = "Ok" /\ IsSome(lastAnswer)
    /\ current_index > 0 /\ current_index < Len(history)
    /\ lastAnswer = Some(history[current_index + 1])

\* C16: history is append-only across every operation: its length never decreases and
\* an entry once at position i stays there unchanged.
C16_AppendOnly ==
    [][ /\ Len(history') >= Len(history)
        /\ \A i \in 1..Len(history) : history'[i] = history[i] ]_vars

\* C16 witness: two entries recorded, the cursor rewound to the first, both still there.
C16_Witness ==
    /\ Len(history) = 2 /\ current_index = 0
    /\ lastOp = "go_back" /\ lastResult = "Ok"
    /\ history[1] # history[2]

\* C17: the transcript of every reachable Context has, after its header lines, one
\* Qn/An block per history entry, numbered 1..len(history) in insertion order, and
\* is the same for every cursor position, persona and metadata.
C17_TranscriptOfHistory ==
    LET ctx == CurrentContext
        pieces == ContextPieces(ctx)
        header == (IF IsSome(starting_hints) THEN 1 ELSE 0)
                  + (IF IsSome(domain) THEN 1 ELSE 0) + 1
    IN /\ Len(pieces) = header + Len(history)
       /\ \A n \in 1..Len(history) :
             pieces[header + n] =
                 "Q" \o ToString(n) \o ": " \o history[n].question.text \o "\n"
                 \o "A" \o ToString(n) \o ": " \o history[n].response \o "\n\n"
       /\ \A i \in 0..(MaxIndex + 1), seed \in ContextSeeds :
             get_context_string([ctx EXCEPT !.current_index = i,
                                            !.persona = seed.persona,
                                            !.metadata = seed.metadata])
             = get_context_string(ctx)

\* C17 witness: a question was requested from the collaborator (which renders the
\* transcript into the prompt) with the cursor rewound before the last entry.
C17_Witness ==
    /\ lastOp = "generate_next_question" /\ lastCalls = 1
    /\ Len(history) >= 1 /\ current_index < Len(history)
    /\ IsSome(starting_hints)

\* C18 (as claimed): every call of the parser returns a Question or a parse
\* failure; it never aborts.
C18_ParserTotal ==
    lastOp = "parse_question_response" => /\ ~panicked
                                          /\ parsed.kind \in {"Ok", "Err"}

\* The JSON value parse_question_response reads out of a response text, if any.
JsonOf(text) == from_str(replace(replace(trim(text), FenceJson), Fence))

\* The payload rule of a Question: options exactly for MultipleChoice and YesNo,
\* ["Yes","No"] for YesNo, scale exactly for RatingScale, never both.
PayloadByKind(q) ==
    /\ IsSome(q.options) <=> q.question_type \in {"MultipleChoice", "YesNo"}
    /\ q.question_type = "YesNo" => q.options = Some(<<"Yes", "No">>)
    /\ IsSome(q.scale) <=> q.question_type = "RatingScale"
    /\ ~(IsSome(q.options) /\ IsSome(q.scale))

\* Questions built by the constructors directly, with and without help text.
ConstructedQuestions ==
    LET plain == {multiple_choice("q_0", "Which?", opts) : opts \in {<<>>, <<"a", "b">>}}
                 \cup {yes_no("q_0", "Ship it?"), free_text("q_0", "Why?")}
                 \cup {rating_scale("q_0", "How much?", lo, hi) :
                          lo \in {0, 5}, hi \in {0, 5}}
    IN plain \cup {with_help_text(q, "hint") : q \in plain} \cup QuestionPool

\* C19: every Question the parser returns, and every Question the constructors
\* build, has options exactly when it is MultipleChoice or YesNo (always
\* ["Yes","No"] for YesNo, whatever the input carried), scale exactly when it is
\* RatingScale, and never both.
C19_PayloadDeterminedByKind ==
    /\ parsed.kind = "Ok" => PayloadByKind(Unwrap(parsed.question))
    /\ \A q \in ConstructedQuestions : PayloadByKind(q)

\* C19 witness: the parser returned a YesNo Question for an input that carried
\* an options array and a scale of its own.
C19_Witness ==
    /\ lastOp = "parse_question_response"
    /\ parsed.kind = "Ok"
    /\ Unwrap(parsed.question).question_type = "YesNo"
    /\ IsSome(as_array(Index(Unwrap(JsonOf(llm_response)), "options")))
    /\ IsSome(as_array(Index(Unwrap(JsonOf(llm_response)), "scale")))

\* The failure the fixed order of checks assigns to a response text: the message
\* of the first failing step, or "" when none of the listed steps fails.
FirstFailure(text) ==
    IF ~IsSome(JsonOf(text)) THEN "Failed to parse LLM response as JSON"
    ELSE LET json == Unwrap(JsonOf(text))
             kind == as_str(Index(json, "question_type"))
         IN IF ~IsSome(kind) \/ Unwrap(kind) \notin QuestionTypeNames
            THEN "Invalid question type in LLM response"
            ELSE IF ~IsSome(as_str(Index(json, "question_text")))
            THEN "Missing question_text in LLM response"
            ELSE IF Unwrap(kind) = "MultipleChoice" /\ Index(json, "options") = Value_Null
            THEN "Missing options for MultipleChoice question"
            ELSE IF Unwrap(kind) = "RatingScale" /\ Index(json, "scale") = Value_Null
            THEN "Missing scale for RatingScale question"
            ELSE ""

\* What the ordered checks promise of the last call: the first failing step is
\* the failure reported, and a help_text that is no string is left out of the
\* Question without failing the call.
OrderedChecksHold ==
    /\ FirstFailure(llm_response) # ""
         => parsed.kind = "Err" /\ parsed.error = FirstFailure(llm_response)
    /\ (/\ IsSome(JsonOf(llm_response))
        /\ ~IsSome(as_str(Index(Unwrap(JsonOf(llm_response)), "help_text")))
        /\ parsed.kind = "Ok")
         => Unwrap(parsed.question).help_text = None

\* C20 (as claimed): at every call the parser reports the first failing step of
\* the order not-JSON, unknown kind, missing question_text, missing
\* kind-specific field; a help_text that is not a string never fails the call.
C20_FirstFailingStepReported ==
    lastOp = "parse_question_response" => OrderedChecksHold

\* Supporting: the order of the checks is the claimed one at every call that
\* does not abort.
ParserOrderUnlessAborted ==
    (lastOp = "parse_question_response" /\ ~panicked) => OrderedChecksHold

\* Two outcomes of the parser that agree apart from the id of the Question.
SameOutcome(a, b) ==
    /\ a.kind = b.kind
    /\ a.error = b.error
    /\ a.kind = "Ok" => [Unwrap(a.question) EXCEPT !.id = ""]
                        = [Unwrap(b.question) EXCEPT !.id = ""]

\* C21: for every JSON value, the text with the value inside a fenced code block
\* and the bare text have the same outcome (the same Question apart from its id,
\* or the same failure), at whatever seconds the two are parsed, as long as the
\* response file of the second exists for both calls or for neither.
C21_FenceTransparent ==
    \A v \in FencedJsonValues, t1 \in 0..MaxClock, t2 \in 0..MaxClock :
        ((t1 \in files) <=> (t2 \in files))
        => SameOutcome(parse_question_response(Fenced(v), t1, files).outcome,
                       parse_question_response(<<JsonText(v)>>, t2, files).outcome)

\* C21 witness: after a call in an earlier second, a fenced text was parsed into
\* a Question.
C21_Witness ==
    /\ lastOp = "parse_question_response"
    /\ \E v \in FencedJsonValues : llm_response = Fenced(v)
    /\ parsed.kind = "Ok"
    /\ Cardinality(files) = 2

\* C22 (as claimed): a RatingScale input whose scale is an array [a, b] of two
\* non-negative integers is accepted whatever their order, and the Question's
\* scale is exactly (a, b), also for values of 256 or more.
C22_ScaleKeptExactly ==
    (/\ lastOp = "parse_question_response"
     /\ ~panicked
     /\ IsSome(JsonOf(llm_response))
     /\ FirstFailure(llm_response) = ""
     /\ as_str(Index(Unwrap(JsonOf(llm_response)), "question_type")) = Some("RatingScale"))
    => LET scale == as_array(Index(Unwrap(JsonOf(llm_response)), "scale"))
       IN (/\ IsSome(scale)
           /\ Len(Unwrap(scale)) = 2
           /\ IsSome(as_u64(Unwrap(scale)[1]))
           /\ IsSome(as_u64(Unwrap(scale)[2])))
          => /\ parsed.kind = "Ok"
             /\ Unwrap(parsed.question).scale
                  = Some(<<Unwrap(scale)[1].n, Unwrap(scale)[2].n>>)

\* --- the document assembler, described by positions in the document
IsHeading(doc, i) == starts_with(doc[i], H2Prefix)

\* The first heading after line i, or the line after the last.
NextHeading(doc, i) ==
    LET later == {j \in (i + 1)..Len(doc) : IsHeading(doc, j)}
    IN IF later = {} THEN Len(doc) + 1
       ELSE CHOOSE j \in later : \A k \in later : j <= k

\* Lines from..to of the document, each followed by a line break.
RECURSIVE LinesWithBreaks(_, _, _)
LinesWithBreaks(doc, from, to) ==
    IF from > to THEN <<>>
    ELSE doc[from] \o <<"\n">> \o LinesWithBreaks(doc, from + 1, to)

ContentAfter(doc, i) == LinesWithBreaks(doc, i + 1, NextHeading(doc, i) - 1)
TitleLineAt(doc, i) == trim_str(SliceFrom(doc[i], 3))

\* The headings that make a section: stripped title and content both non-empty.
RECURSIVE KeptHeadings(_, _)
KeptHeadings(doc, i) ==
    IF i > Len(doc) THEN <<>>
    ELSE (IF /\ IsHeading(doc, i)
             /\ clean_title(TitleLineAt(doc, i)) # <<>>
             /\ ContentAfter(doc, i) # <<>>
          THEN <<i>> ELSE <<>>) \o KeptHeadings(doc, i + 1)

\* C23 (as claimed): the example document gives title "Foo" and the sections
\* "Bar" (VeryHigh, content "Hello\n") and "Baz" (Medium, content "World\n").
C23_ExampleAsClaimed ==
    (IsSome(assembled) /\ markdown = ExampleDocument)
    => /\ Unwrap(assembled).name = <<"Foo">>
       /\ Unwrap(assembled).sections =
            << [title |-> <<"Bar">>, content |-> <<"Hello", "\n">>,
                confidence |-> "VeryHigh"],
               [title |-> <<"Baz">>, content |-> <<"World", "\n">>,
                confidence |-> "Medium"] >>

\* C23 (amended): the example document gives title "Foo" and the sections "Bar"
\* (VeryHigh, content "Hello\n\n": the blank line before the next heading is a
\* content line) and "Baz" (Medium, content "World\n"); every section's content
\* is the lines not starting with "## " between its heading and the next "## "
\* heading or the end, each followed by a line break, so that lines before the
\* first heading are in no section.
C23_ExampleAndContent ==
    IsSome(assembled)
    => /\ markdown = ExampleDocument
           => /\ Unwrap(assembled).name = <<"Foo">>
              /\ Unwrap(assembled).sections =
                   << [title |-> <<"Bar">>, content |-> <<"Hello", "\n", "\n">>,
                       confidence |-> "VeryHigh"],
                      [title |-> <<"Baz">>, content |-> <<"World", "\n">>,
                       confidence |-> "Medium"] >>
       /\ LET kept == KeptHeadings(markdown, 1)
              sections == Unwrap(assembled).sections
          IN /\ Len(sections) = Len(kept)
             /\ \A k \in 1..Len(sections) :
                   sections[k].content = ContentAfter(markdown, kept[k])

\* C23 witness: the example document was assembled.
C23_Witness ==
    /\ lastOp = "parse_markdown_definition"
    /\ markdown = ExampleDocument
    /\ IsSome(assembled)
    /\ Len(Unwrap(assembled).sections) = 2

\* The markers a stored title must not contain.
ConfidenceMarkers ==
    {StarMarker, CheckMarker, LargeDiamondMarker, SmallDiamondMarker, WarningMarker}
    \cup {LiteralMarker(n) : n \in 1..5}

EmojiLevels ==
    << <<StarMarker, "VeryHigh">>, <<CheckMarker, "High">>,
       <<LargeDiamondMarker, "Medium">>, <<SmallDiamondMarker, "Low">>,
       <<WarningMarker, "VeryLow">> >>

LiteralLevel(n) ==
    CASE n = 5 -> "VeryHigh" [] n = 4 -> "High" [] n = 3 -> "Medium"
      [] n = 2 -> "Low" [] n = 1 -> "VeryLow"

\* The confidence the fixed precedence gives a title line: the first emoji present
\* in the order star, check, large diamond, small diamond, warning; else the
\* literal marker present; else Medium.
ConfidenceByPrecedence(title_line) ==
    LET emoji == {e \in 1..5 : contains(title_line, EmojiLevels[e][1])}
        literal == {n \in 1..5 : contains(title_line, LiteralMarker(n))}
    IN IF emoji # {} THEN EmojiLevels[CHOOSE e \in emoji : \A f \in emoji : e <= f][2]
       ELSE IF literal # {}
       THEN LiteralLevel(CHOOSE n \in literal : \A m \in literal : n >= m)
       ELSE "Medium"

\* C24 (as claimed): every section has the confidence the fixed precedence gives
\* its heading line, and its stored title contains no emoji marker and no
\* (Confidence: n/5) marker.
C24_ConfidenceAndCleanTitle ==
    IsSome(assembled)
    => LET kept == KeptHeadings(markdown, 1)
           sections == Unwrap(assembled).sections
       IN \A k \in 1..Len(sections) :
            /\ k <= Len(kept)
                => sections[k].confidence
                    = ConfidenceByPrecedence(TitleLineAt(markdown, kept[k]))
            /\ \A marker \in ConfidenceMarkers : ~contains(sections[k].title, marker)

\* Supporting: the confidence is the one the precedence gives.
ConfidenceFollowsPrecedence ==
    IsSome(assembled)
    => LET kept == KeptHeadings(markdown, 1)
           sections == Unwrap(assembled).sections
       IN \A k \in 1..Len(sections) :
            k <= Len(kept)
            => sections[k].confidence
                = ConfidenceByPrecedence(TitleLineAt(markdown, kept[k]))

\* C25: parse_markdown_definition returns Ok on every text; its sections are,
\* in order, exactly the headings whose stripped title and whose content are
\* both non-empty, each with the title of that heading; a text with no "## " line
\* gives no section, and a text with no "# " line the fallback title.
C25_AssemblerTotal ==
    /\ lastOp = "parse_markdown_definition" => IsSome(assembled) /\ lastResult = "Ok"
    /\ IsSome(assembled)
       => LET kept == KeptHeadings(markdown, 1)
              sections == Unwrap(assembled).sections
          IN /\ Len(sections) = Len(kept)
             /\ \A k \in 1..Len(sections) :
                   /\ sections[k].title = clean_title(TitleLineAt(markdown, kept[k]))
                   /\ sections[k].title # <<>>
                   /\ sections[k].content # <<>>
             /\ (\A i \in 1..Len(markdown) : ~IsHeading(markdown, i))
                   => sections = <<>>
             /\ (\A i \in 1..Len(markdown) : ~starts_with(markdown[i], H1Prefix))
                   => Unwrap(assembled).name = FallbackName

\* C25 witness: a text was assembled in which one heading, followed at once by
\* another, was dropped and a later one made a section; it has no "# " line.
C25_Witness ==
    /\ lastOp = "parse_markdown_definition"
    /\ IsSome(assembled)
    /\ Len(markdown) = 3
    /\ IsHeading(markdown, 1) /\ IsHeading(markdown, 2) /\ ~IsHeading(markdown, 3)
    /\ clean_title(TitleLineAt(markdown, 1)) # <<>>
    /\ Len(Unwrap(assembled).sections) = 1
    /\ Unwrap(assembled).name = FallbackName

\* C26 (as claimed): a session started without a template has the hints given
\* and the domain given, each absent when not given.
C26_HintsAndDomainKept ==
    (IsSome(cli) /\ ~IsSome(Unwrap(cli).template_name))
    => /\ starting_hints = Unwrap(cli).hints
       /\ domain = Unwrap(cli).domain

\* C27 (as claimed): the history never holds more answers than the budget.
C27_BudgetBoundsHistory == Len(history) <= max_questions

\* C28 (as claimed): start changes the state only from Initial, and no step takes
\* a session in Generating or Completed back to Questioning.
C28_StateOnlyForward ==
    [][ /\ (lastOp' = "start" /\ state # "Initial") => state' = state
        /\ state \in {"Generating", "Completed"} => state' # "Questioning" ]_vars

\* C29: a generate_project_definition whose collaborator call fails returns the
\* failure, leaves output as it was (absent stays absent) and the state
\* Generating, never Completed or Error; in Generating generate_next_question
\* and answer_question are rejected without effect; and a
\* generate_project_definition that then succeeds ends in Completed.
C29_FailedFinalize ==
    [][ /\ (lastOp' = "generate_project_definition" /\ lastResult' # "Ok")
           => /\ lastResult' = "CollaboratorError"
              /\ output' = output
              /\ state' = "Generating"
              /\ history' = history /\ current_question' = current_question
        /\ (state = "Generating"
            /\ lastOp' \in {"generate_next_question", "answer_question"})
           => /\ lastResult' = "StateError"
              /\ lastCalls' = 0
              /\ state' = "Generating"
              /\ history' = history /\ current_question' = current_question
        /\ (state = "Generating" /\ lastOp' = "generate_project_definition"
            /\ lastResult' = "Ok")
           => state' = "Completed" /\ IsSome(output') ]_vars

\* C29 witness: a finalize called with a question pending and the budget not
\* reached has failed: the session is in Generating with no output.
C29_Witness ==
    /\ lastOp = "generate_project_definition"
    /\ lastResult = "CollaboratorError"
    /\ state = "Generating"
    /\ output = None
    /\ IsSome(current_question)
    /\ Len(history) < max_questions

C10_UnrecoverableFailureEntersError ==
    [][ (~panicked /\ panicked' /\ state \in {"Questioning", "Generating"})
        => state' = "Error" ]_vars

\* No operation ever writes SessionState::Error.
ErrorNeverEntered == state # "Error"
====
